---------------------------- MODULE Spec2Model ----------------------------
(***************************************************************************)
(* Usage / rate-limit tracking of the fashion assistant front end:         *)
(* ApiService (frontend/src/helpers/apiService.js) and the parts of        *)
(* ChatPage (frontend/src/components/ChatPage.js) that drive it.           *)
(*                                                                         *)
(* The specifications share the operators below:                           *)
(*   SpecLoad    the persisted key holds arbitrary content; the service is *)
(*               constructed, the record is read back and the time until   *)
(*               reset is computed from it;                                *)
(*   SpecEngine  one caller runs the engine's operations one after the     *)
(*               other, each with every probe answer of a rich input set;  *)
(*   Spec        the chat page: query attempts, the fire-and-forget        *)
(*               updateUsageFromServer, the refresh started on mount and   *)
(*               the refresh after each attempt interleave at their        *)
(*               network calls;                                            *)
(*   SpecOffline the chat page with the status endpoint never answering.   *)
(*   SpecErrors  the chat page with every way the query request can fail;  *)
(*   SpecTimer   the chat page with its 10 s interval and the unmount;     *)
(*   SpecWindow  the chat page kept open until a 5 h window has passed.    *)
(***************************************************************************)
EXTENDS Integers, Sequences, FiniteSets, Bags, TLC

VARIABLES
    storage,    \* localStorage['fashionAgent_usage']
    now,        \* Date.now()
    svc,        \* the apiService singleton: "unloaded", "ready", or "failed"
                \* when its constructor raised
    last,       \* SpecLoad / SpecEngine: the operation just run, its input and result
    q,          \* the query attempt of handleSendMessage / query()
    bg,         \* bag of the other async tasks suspended at a status probe
    ui,         \* ChatPage state: isLoading, isServerConnected, whether the page is
                \* mounted, and of `usage` the one thing the page computes with:
                \* isLimitReached = usage.count >= usage.limit
    hist        \* counters of what has happened (queries started, POSTs, ticks)

vars == <<storage, now, svc, last, q, bg, ui, hist>>

---------------------------------------------------------------------------
(* Program constants *)

FiveHours == 18000000
DefaultLimit == 20
HourMs == 60 * 60 * 1000
MinuteMs == 60 * 1000

(* Bounds of the model *)

\* the clock advances in steps of half a window, at most MaxTicks times
MaxTicks == 3
\* SpecEngine: the caller runs at most MaxOps operations
MaxOps == 2
\* Spec: query attempts started, firings of the 10 s interval, and tasks that
\* may be waiting for a probe when a new attempt or a timer task starts
MaxQueries == 2
MaxTimers == 1
MaxPending == 2
\* Spec, SpecOffline: the clock advances at most MaxPageTicks times
MaxPageTicks == 1
\* SpecOffline: query attempts started, and tasks that may be waiting for a
\* probe when a new attempt starts
MaxOfflineQueries == 22
MaxOfflinePending == 3
TickMs == FiveHours \div 2
\* Date.now() when the page is loaded (records persisted earlier are older)
StartNow == 3 * TickMs

---------------------------------------------------------------------------
(* JavaScript values, as far as JSON can carry them.  k is the kind, n the *)
(* number (of a number, of a boolean as 0/1, the instant of a date string) *)

V(k, n) == [k |-> k, n |-> n]
Undef == V("undef", 0)
Null == V("null", 0)
Num(n) == V("num", n)
NaN == V("nan", 0)
Text == V("text", 0)            \* a non-empty string that is no number and no date
Empty == V("empty", 0)          \* ""
JsFalse == V("bool", 0)
JsTrue == V("bool", 1)
Obj == V("obj", 0)              \* a nested object {}
\* the strings a reset_time can be
ResetNA == V("N/A", 0)
ResetExpired == V("Window expired - resets on next query", 0)
IsoDate(t) == V("iso", t)       \* a string new Date() parses to the instant t

\* Number(v)
ToNumber(v) ==
    CASE v.k = "num" -> v
      [] v.k = "null" -> Num(0)
      [] v.k = "bool" -> Num(v.n)
      [] v.k = "empty" -> Num(0)
      [] OTHER -> NaN

\* the global isNaN(v): Number(v) is NaN
isNaN(v) == ToNumber(v).k = "nan"

\* ToBoolean(v)
Truthy(v) ==
    CASE v.k \in {"undef", "null", "nan", "empty"} -> FALSE
      [] v.k = "num" -> v.n # 0
      [] v.k = "bool" -> v.n = 1
      [] OTHER -> TRUE

\* a || b
Or(a, b) == IF Truthy(a) THEN a ELSE b

\* a - b
Minus(a, b) ==
    IF isNaN(a) \/ isNaN(b) THEN NaN ELSE Num(ToNumber(a).n - ToNumber(b).n)

\* a + b for operands that are no strings or objects (those concatenate)
Plus(a, b) ==
    IF a.k \in {"text", "empty", "obj", "iso", "N/A", "Window expired - resets on next query"}
       \/ b.k \in {"text", "empty", "obj", "iso", "N/A", "Window expired - resets on next query"}
    THEN Text
    ELSE IF isNaN(a) \/ isNaN(b) THEN NaN ELSE Num(ToNumber(a).n + ToNumber(b).n)

\* a > b, a >= b, a <= b on numbers (a comparison with NaN is false)
Gt(a, b) == ~isNaN(a) /\ ~isNaN(b) /\ ToNumber(a).n > ToNumber(b).n
Ge(a, b) == ~isNaN(a) /\ ~isNaN(b) /\ ToNumber(a).n >= ToNumber(b).n
Le(a, b) == ~isNaN(a) /\ ~isNaN(b) /\ ToNumber(a).n <= ToNumber(b).n

---------------------------------------------------------------------------
(* The persisted record.  storage.k is "absent" (getItem gives null),      *)
(* "empty" (the empty string), "garbage" (a string JSON.parse rejects) or  *)
(* "json"; then storage.v is the parsed value: a primitive, or an object   *)
(* (k = "object") whose missing fields read as undefined.                  *)

Absent == [k |-> "absent", v |-> Undef]
EmptyString == [k |-> "empty", v |-> Undef]
Garbage == [k |-> "garbage", v |-> Undef]
Json(v) == [k |-> "json", v |-> v]

Usage(c, t, l, s, r) ==
    [k |-> "object", count |-> c, timestamp |-> t, limit |-> l,
     serverSync |-> s, serverResetTime |-> r]

\* JSON.stringify of one field: NaN is written as null; an undefined field is
\* left out, which reads back as undefined
Ser(v) == IF v.k = "nan" THEN Null ELSE v

\* localStorage.setItem(key, JSON.stringify(usage)) followed by JSON.parse
Stringify(u) ==
    Json(Usage(Ser(u.count), Ser(u.timestamp), Ser(u.limit),
               Ser(u.serverSync), Ser(u.serverResetTime)))

\* resetUsage(): the record it writes has no serverSync / serverResetTime
resetUsage(t) == Stringify(Usage(Num(0), Num(t), Num(DefaultLimit), Undef, Undef))

\* the snapshot getUsageSync returns when there is nothing usable stored
DefaultUsage(t) == Usage(Num(0), Num(t), Num(DefaultLimit), JsFalse, Undef)

\* reading a property of a parsed value raises a TypeError on null
PropertyThrows(v) == v.k = "null"
Prop(v, f) == IF v.k = "object" THEN v[f] ELSE Undef

\* getUsageSync(): never raises; t is Date.now()
getUsageSync(st, t) ==
    IF st.k # "json" THEN DefaultUsage(t)           \* null, "" or a parse error
    ELSE IF PropertyThrows(st.v) THEN DefaultUsage(t)   \* caught TypeError
    ELSE Usage(IF isNaN(Prop(st.v, "count")) THEN Num(0) ELSE Prop(st.v, "count"),
               IF isNaN(Prop(st.v, "timestamp")) THEN Num(t) ELSE Prop(st.v, "timestamp"),
               IF isNaN(Prop(st.v, "limit")) THEN Num(DefaultLimit) ELSE Prop(st.v, "limit"),
               Or(Prop(st.v, "serverSync"), JsFalse),
               Or(Prop(st.v, "serverResetTime"), Null))

\* initializeUsageTracking(): the JSON.parse and the property read are not
\* guarded, so it raises on a string that is no JSON and on a stored null
initThrows(st) ==
    \/ st.k = "garbage"
    \/ st.k = "json" /\ PropertyThrows(st.v)

initializeUsageTracking(st, t) ==
    IF st.k \in {"absent", "empty"} THEN resetUsage(t)
    ELSE IF initThrows(st) THEN st
    ELSE IF Gt(Minus(Num(t), Prop(st.v, "timestamp")), Num(FiveHours)) THEN resetUsage(t)
    ELSE st


---------------------------------------------------------------------------
(* The status probe.  An outcome o is what the GET of /api/v1/rate-limit-  *)
(* status ends with: the fetch rejects ("neterr"), the status is not 2xx   *)
(* ("non2xx"), the body is no JSON ("undecodable"), or a decoded body      *)
(* {queries_used, queries_remaining, reset_time}.                          *)

ProbeFail(k) == [k |-> k, used |-> 0, remaining |-> 0, reset |-> Undef]
ProbeOk(u, r, t) == [k |-> "ok", used |-> u, remaining |-> r, reset |-> t]
ProbeFailures == {ProbeFail("neterr"), ProbeFail("non2xx"), ProbeFail("undecodable")}

NoStatus == ProbeFail("null")

\* a getRateLimitStatus() that returns response.json() without awaiting it, so
\* that a rejection of the decoding leaves the try
getRateLimitStatusUnawaited(o) ==
    LET fetchRejects == o.k = "neterr"
        responseOk == ~fetchRejects /\ o.k # "non2xx"
        jsonRejects == responseOk /\ o.k = "undecodable"
    IN  [threw |-> jsonRejects,
         value |-> IF responseOk /\ ~jsonRejects THEN o ELSE ProbeFail("null"),
         gets |-> 1]

\* getRateLimitStatus() statement by statement: one fetch, the response.ok test
\* and the awaited response.json(), all inside a try whose catch swallows what
\* is raised; gets counts the calls of fetch
getRateLimitStatusCall(o) ==
    LET fetchRejects == o.k = "neterr"
        responseOk == ~fetchRejects /\ o.k # "non2xx"
        jsonRejects == responseOk /\ o.k = "undecodable"
    IN  [threw |-> FALSE,
         value |-> IF responseOk /\ ~jsonRejects THEN o ELSE ProbeFail("null"),
         gets |-> 1]

\* getRateLimitStatus(): the decoded body, or null
getRateLimitStatus(o) == IF o.k = "ok" THEN o ELSE NoStatus

\* x || d on a number
OrNat(x, d) == IF x # 0 THEN x ELSE d

\* An engine operation returns [ret |-> its result, st |-> the record it leaves]

\* a getUsage() that keeps the stored count when it is above the server's
getUsageKeepsHigher(st, t, o) ==
    LET serverStatus == getRateLimitStatus(o)
        maxQueries == OrNat(serverStatus.used, 0) + OrNat(serverStatus.remaining, DefaultLimit)
        stored == getUsageSync(st, t)
        used == Num(OrNat(serverStatus.used, 0))
        serverUsage == Usage(IF Gt(stored.count, used) THEN stored.count ELSE used,
                             Num(t), Num(maxQueries), JsTrue, serverStatus.reset)
        offlineUsage == [stored EXCEPT !.serverSync = JsFalse, !.serverResetTime = Null]
    IN  IF serverStatus.k = "ok"
        THEN [ret |-> serverUsage, st |-> Stringify(serverUsage)]
        ELSE [ret |-> offlineUsage, st |-> Stringify(offlineUsage)]

\* a getUsage() whose offline result keeps the reset time stored by another
\* reconciliation
getUsageTorn(st, t, o) ==
    LET serverStatus == getRateLimitStatus(o)
        maxQueries == OrNat(serverStatus.used, 0) + OrNat(serverStatus.remaining, DefaultLimit)
        serverUsage == Usage(Num(OrNat(serverStatus.used, 0)), Num(t), Num(maxQueries),
                             JsTrue, serverStatus.reset)
        offlineUsage == [getUsageSync(st, t) EXCEPT !.serverSync = JsFalse]
    IN  IF serverStatus.k = "ok"
        THEN [ret |-> serverUsage, st |-> Stringify(serverUsage)]
        ELSE [ret |-> offlineUsage, st |-> Stringify(offlineUsage)]

\* a getUsage() whose limit is queries_used + queries_remaining as reported
getUsageSummed(st, t, o) ==
    LET serverStatus == getRateLimitStatus(o)
        maxQueries == serverStatus.used + serverStatus.remaining
        serverUsage == Usage(Num(OrNat(serverStatus.used, 0)), Num(t), Num(maxQueries),
                             JsTrue, serverStatus.reset)
        offlineUsage == [getUsageSync(st, t) EXCEPT !.serverSync = JsFalse,
                                                    !.serverResetTime = Null]
    IN  IF serverStatus.k = "ok"
        THEN [ret |-> serverUsage, st |-> Stringify(serverUsage)]
        ELSE [ret |-> offlineUsage, st |-> Stringify(offlineUsage)]

\* a getUsage() that also applies the local-window expiry check when the probe
\* gave nothing
getUsageExpiring(st, t, o) ==
    LET serverStatus == getRateLimitStatus(o)
        maxQueries == OrNat(serverStatus.used, 0) + OrNat(serverStatus.remaining, DefaultLimit)
        serverUsage == Usage(Num(OrNat(serverStatus.used, 0)), Num(t), Num(maxQueries),
                             JsTrue, serverStatus.reset)
        stored == getUsageSync(st, t)
        expired == Gt(Minus(Num(t), stored.timestamp), Num(FiveHours))
        offlineUsage == [(IF expired THEN DefaultUsage(t) ELSE stored)
                            EXCEPT !.serverSync = JsFalse, !.serverResetTime = Null]
    IN  IF serverStatus.k = "ok"
        THEN [ret |-> serverUsage, st |-> Stringify(serverUsage)]
        ELSE [ret |-> offlineUsage, st |-> Stringify(offlineUsage)]

\* getUsage(), resumed at Date.now() = t with the probe's outcome o
getUsage(st, t, o) ==
    LET serverStatus == getRateLimitStatus(o)
        maxQueries == OrNat(serverStatus.used, 0) + OrNat(serverStatus.remaining, DefaultLimit)
        serverUsage == Usage(Num(OrNat(serverStatus.used, 0)), Num(t), Num(maxQueries),
                             JsTrue, serverStatus.reset)
        offlineUsage == [getUsageSync(st, t) EXCEPT !.serverSync = JsFalse,
                                                    !.serverResetTime = Null]
    IN  IF serverStatus.k = "ok"
        THEN [ret |-> serverUsage, st |-> Stringify(serverUsage)]
        ELSE [ret |-> offlineUsage, st |-> Stringify(offlineUsage)]

\* a limit check with > for >=
ReachedLimitStrict(usage) == Gt(usage.count, usage.limit)

\* usage.count >= usage.limit (two equal strings compare as equal)
ReachedLimit(usage) ==
    \/ Ge(usage.count, usage.limit)
    \/ usage.count.k = "text" /\ usage.limit.k = "text"

\* a hasReachedLimit() that decides on the record stored before its reconciliation
hasReachedLimitCached(st, t, o) ==
    LET g == getUsage(st, t, o)
    IN  [ret |-> ReachedLimit(getUsageSync(st, t)), usage |-> g.ret, st |-> g.st]

\* hasReachedLimit()
hasReachedLimit(st, t, o) ==
    LET g == getUsage(st, t, o)
    IN  [ret |-> ReachedLimit(g.ret), usage |-> g.ret, st |-> g.st]

\* incrementUsage()
incrementUsage(st, t, o) ==
    LET g == getUsage(st, t, o)
        usage == [g.ret EXCEPT !.count = Plus(g.ret.count, Num(1))]
    IN  [ret |-> usage, st |-> Stringify(usage)]

Max(a, b) == IF a >= b THEN a ELSE b

\* a server branch taken for every non-empty reset time of a synced snapshot
UsesServerResetUnchecked(usage) ==
    Truthy(usage.serverResetTime) /\ Truthy(usage.serverSync)

\* the server branch of getTimeUntilReset is taken
UsesServerReset(usage) ==
    /\ Truthy(usage.serverResetTime)
    /\ Truthy(usage.serverSync)
    /\ usage.serverResetTime # ResetNA
    /\ usage.serverResetTime # ResetExpired
    /\ usage.serverResetTime.k = "iso"      \* !isNaN(new Date(...).getTime())

\* a getTimeUntilReset whose server branch returns the difference as it is
timeUntilResetUnfloored(usage, st, t) ==
    LET timeElapsed == Minus(Num(t), usage.timestamp)
        timeRemaining == Minus(Num(FiveHours), timeElapsed)
    IN  IF UsesServerReset(usage)
        THEN [ret |-> Num(usage.serverResetTime.n - t), st |-> st]
        ELSE IF Le(timeRemaining, Num(0))
        THEN [ret |-> Num(0), st |-> resetUsage(t)]
        ELSE [ret |-> timeRemaining, st |-> st]

\* a getTimeUntilReset that applies the local expiry check before the server
\* branch
timeUntilResetLocalFirst(usage, st, t) ==
    LET timeElapsed == Minus(Num(t), usage.timestamp)
        timeRemaining == Minus(Num(FiveHours), timeElapsed)
    IN  IF Le(timeRemaining, Num(0))
        THEN [ret |-> Num(0), st |-> resetUsage(t)]
        ELSE IF UsesServerReset(usage)
        THEN [ret |-> Num(Max(0, usage.serverResetTime.n - t)), st |-> st]
        ELSE [ret |-> timeRemaining, st |-> st]

\* the part of getTimeUntilReset after its getUsage, on the snapshot `usage`
\* with the record st stored: [ret |-> milliseconds (a JS number), st]
timeUntilReset(usage, st, t) ==
    LET timeElapsed == Minus(Num(t), usage.timestamp)
        timeRemaining == Minus(Num(FiveHours), timeElapsed)
    IN  IF UsesServerReset(usage)
        THEN [ret |-> Num(Max(0, usage.serverResetTime.n - t)), st |-> st]
        ELSE IF Le(timeRemaining, Num(0))
        THEN [ret |-> Num(0), st |-> resetUsage(t)]
        ELSE [ret |-> timeRemaining, st |-> st]

\* getTimeUntilReset()
getTimeUntilReset(st, t, o) ==
    LET g == getUsage(st, t, o) IN timeUntilReset(g.ret, g.st, t)

\* getTimeUntilResetSync()
getTimeUntilResetSync(st, t) == timeUntilReset(getUsageSync(st, t), st, t)

\* the text formatTimeUntilReset builds from the milliseconds
Formatted(k, h, m) == [k |-> k, h |-> h, m |-> m]
AvailableNow == Formatted("Available now", 0, 0)

formatTime(ms) ==
    IF isNaN(ms) \/ ms = Num(0) THEN AvailableNow
    ELSE LET hours == ms.n \div HourMs
             minutes == (ms.n % HourMs) \div MinuteMs
         IN  IF hours > 0 THEN Formatted("Xh Ym", hours, minutes)
             ELSE Formatted("Ym", 0, minutes)

\* formatTimeUntilReset()
formatTimeUntilReset(st, t, o) ==
    LET r == getTimeUntilReset(st, t, o) IN [ret |-> formatTime(r.ret), st |-> r.st]

\* updateUsageFromServer(rateLimitInfo), rateLimitInfo = [remaining, reset]
RateLimit(r, t) == [remaining |-> r, reset |-> t]

updateUsageFromServer(st, t, o, rateLimitInfo) ==
    LET g == getUsage(st, t, o)
        queriesUsed == Minus(g.ret.limit, Num(rateLimitInfo.remaining))
        updatedUsage == [g.ret EXCEPT !.count = queriesUsed,
                                      !.serverResetTime = rateLimitInfo.reset]
    IN  [ret |-> updatedUsage, st |-> Stringify(updatedUsage)]

---------------------------------------------------------------------------
(* State shared by the specifications *)

NoSummary == [count |-> Undef, limit |-> Undef, remaining |-> Undef, resetTime |-> AvailableNow]
NoRateLimit == [remaining |-> 0, reset |-> Undef, present |-> FALSE]

\* no query attempt under way
NoMessage == [text |-> "none", reset |-> AvailableNow]
QIdle ==
    [pc |-> "IDLE", pre |-> Undef, reached |-> FALSE, posted |-> FALSE, incs |-> 0,
     rl |-> NoRateLimit, usage |-> NoSummary, outcome |-> "none",
     error |-> NoMessage, shown |-> NoMessage, summary |-> NoSummary]

NoOp == [op |-> "none", probe |-> NoStatus, ret |-> Undef]

HistInit == [queries |-> 0, succeeded |-> 0, posts |-> 0, timers |-> 0, ticks |-> 0, ops |-> 0]

\* ChatPage's first render: useState(apiService.getUsageSync()), isLoading
\* false, isServerConnected true
UiInit(st, t) ==
    [isLimitReached |-> ReachedLimit(getUsageSync(st, t)),
     isLoading |-> FALSE, isServerConnected |-> TRUE, mounted |-> TRUE]

\* time passes
Advance(maxTicks) ==
    /\ hist.ticks < maxTicks
    /\ now' = now + TickMs
    /\ hist' = [hist EXCEPT !.ticks = @ + 1]
    /\ UNCHANGED <<storage, svc, last, q, bg, ui>>

---------------------------------------------------------------------------
(* SpecLoad: whatever the persisted key holds *)

JsonPrimitives == {Null, Num(5), Text, JsTrue}
FieldValues == {Undef, Null, Num(3), Text, JsTrue, Obj}
TimestampValues == {Undef, Null, Num(0), Num(StartNow), Text}
LimitValues == {Undef, Null, Num(5), Text, Empty}

\* reset times a record can carry: none, the two sentinels, a text that is no
\* date, an instant before and an instant after the page load
StoredResetTimes ==
    {Undef, ResetNA, ResetExpired, Text, IsoDate(StartNow - TickMs), IsoDate(StartNow + TickMs)}
\* records of a window that has expired, is open, or starts in the future
TimedRecords ==
    {Json(Usage(Num(3), Num(t), Num(DefaultLimit), s, r)) :
        t \in {0, StartNow - TickMs, StartNow + TickMs}, s \in {JsFalse, JsTrue},
        r \in StoredResetTimes}

RawContents ==
    {Absent, EmptyString, Garbage}
    \cup TimedRecords
    \cup {Json(v) : v \in JsonPrimitives}
    \cup {Json(Usage(c, t, l, s, r)) :
            c \in FieldValues, t \in TimestampValues, l \in LimitValues,
            s \in {Undef, JsTrue}, r \in {Undef, ResetNA}}

InitLoad ==
    /\ storage \in RawContents
    /\ now = StartNow
    /\ svc = "unloaded"
    /\ last = NoOp
    /\ q = QIdle
    /\ bg = EmptyBag
    /\ ui = UiInit(Absent, StartNow)
    /\ hist = HistInit

\* the module is evaluated: export const apiService = new ApiService()
LoadModule ==
    /\ svc = "unloaded"
    /\ svc' = IF initThrows(storage) THEN "failed" ELSE "ready"
    /\ storage' = initializeUsageTracking(storage, now)
    /\ last' = [op |-> "constructor", probe |-> NoStatus, ret |-> Undef]
    /\ UNCHANGED <<now, q, bg, ui, hist>>

\* apiService.getUsageSync()
CallGetUsageSync ==
    /\ svc = "ready"
    /\ last' = [op |-> "getUsageSync", probe |-> NoStatus, ret |-> getUsageSync(storage, now)]
    /\ UNCHANGED <<storage, now, svc, q, bg, ui, hist>>

\* another tab, an older build or the user rewrites the key
ExternalWrite ==
    /\ svc = "ready"
    /\ last.op # "external"
    /\ \E raw \in RawContents : storage' = raw
    /\ last' = [op |-> "external", probe |-> NoStatus, ret |-> Undef]
    /\ UNCHANGED <<now, svc, q, bg, ui, hist>>

\* apiService.getTimeUntilResetSync()
CallGetTimeUntilResetSync ==
    /\ svc = "ready"
    /\ LET r == getTimeUntilResetSync(storage, now)
       IN  /\ storage' = r.st
           /\ last' = [op |-> "getTimeUntilResetSync", probe |-> NoStatus, ret |-> r.ret]
    /\ UNCHANGED <<now, svc, q, bg, ui, hist>>

\* await apiService.getTimeUntilReset()
LoadProbes == {ProbeFail("neterr")} \cup {ProbeOk(3, 17, r) : r \in StoredResetTimes}

CallGetTimeUntilReset ==
    /\ svc = "ready"
    /\ \E o \in LoadProbes :
          LET r == getTimeUntilReset(storage, now, o)
          IN  /\ storage' = r.st
              /\ last' = [op |-> "getTimeUntilReset", probe |-> o, ret |-> r.ret]
    /\ UNCHANGED <<now, svc, q, bg, ui, hist>>

\* await apiService.getRateLimitStatus()
StatusProbes == ProbeFailures \cup LoadProbes

CallGetRateLimitStatus ==
    /\ svc = "ready"
    /\ \E o \in StatusProbes :
          last' = [op |-> "getRateLimitStatus", probe |-> o, ret |-> getRateLimitStatusCall(o)]
    /\ UNCHANGED <<storage, now, svc, q, bg, ui, hist>>

NextLoad ==
    \/ LoadModule
    \/ CallGetRateLimitStatus
    \/ CallGetUsageSync
    \/ CallGetTimeUntilResetSync
    \/ CallGetTimeUntilReset
    \/ ExternalWrite

SpecLoad == InitLoad /\ [][NextLoad]_vars

---------------------------------------------------------------------------
(* SpecEngine: the engine's operations run one after the other *)

PriorCounts == {0, 3, 20, 21}
PriorLimits == {20, 23}
PriorTimestamps == {0, TickMs, 2 * TickMs, StartNow}
ResetTimes == {Undef, ResetNA, ResetExpired, Text, IsoDate(StartNow), IsoDate(StartNow + 3 * TickMs)}

\* records an earlier session of the page can have left
WellFormedRecords ==
    {resetUsage(t) : t \in PriorTimestamps}
    \cup {Stringify(Usage(Num(c), Num(t), Num(l), JsFalse, Null)) :
            c \in PriorCounts, t \in PriorTimestamps, l \in PriorLimits}
    \cup {Stringify(Usage(Num(c), Num(t), Num(l), JsTrue, r)) :
            c \in PriorCounts, t \in PriorTimestamps, l \in PriorLimits, r \in ResetTimes}

EngineUsed == {0, 3, 20}
EngineRemaining == {0, 17}
EngineProbes ==
    ProbeFailures \cup {ProbeOk(u, r, t) : u \in EngineUsed, r \in EngineRemaining, t \in ResetTimes}

InitEngine ==
    /\ \E prior \in {Absent} \cup WellFormedRecords :
          storage = initializeUsageTracking(prior, StartNow)
    /\ now = StartNow
    /\ svc = "ready"
    /\ last = NoOp
    /\ q = QIdle
    /\ bg = EmptyBag
    /\ ui = UiInit(Absent, StartNow)
    /\ hist = HistInit

\* one operation, awaited to its end, with the probe's outcome o
Ran(name, o, r) ==
    /\ hist.ops < MaxOps
    /\ hist' = [hist EXCEPT !.ops = @ + 1]
    /\ storage' = r.st
    /\ last' = [op |-> name, probe |-> o, ret |-> r.ret]
    /\ UNCHANGED <<now, svc, q, bg, ui>>

EngGetUsage == \E o \in EngineProbes : Ran("getUsage", o, getUsage(storage, now, o))

EngHasReachedLimit ==
    \E o \in EngineProbes : Ran("hasReachedLimit", o, hasReachedLimit(storage, now, o))

EngIncrementUsage ==
    \E o \in EngineProbes : Ran("incrementUsage", o, incrementUsage(storage, now, o))

EngGetTimeUntilReset ==
    \E o \in EngineProbes : Ran("getTimeUntilReset", o, getTimeUntilReset(storage, now, o))

EngUpdateUsageFromServer ==
    \E o \in EngineProbes, r \in EngineRemaining, t \in {ResetNA, IsoDate(StartNow + 3 * TickMs)} :
        Ran("updateUsageFromServer", o, updateUsageFromServer(storage, now, o, RateLimit(r, t)))

NextEngine ==
    \/ Advance(MaxTicks)
    \/ EngGetUsage
    \/ EngHasReachedLimit
    \/ EngIncrementUsage
    \/ EngGetTimeUntilReset
    \/ EngUpdateUsageFromServer

SpecEngine == InitEngine /\ [][NextEngine]_vars

---------------------------------------------------------------------------
(* The query request: what the POST of /api/v1/query ends with *)

Post(k, status, detail, rl) == [k |-> k, status |-> status, detail |-> detail, rl |-> rl]

\* error texts
FailedToFetch == "Failed to fetch"
JsonSyntaxError == "Unexpected token < in JSON at position 0"
GenericRateLimit == "Rate limit exceeded. Please try again later."
HttpError == "HTTP error! status: "
RateLimitReached == "Rate limit reached. You can make 20 queries every 5 hours. Next reset: "
\* texts a server may put in a 429 body or in the detail of another error
ServerSaysReached == "Rate limit reached for this address"
ServerSaysExceeded == "Too many requests"
ServerDetail == "Internal server error"
\* texts of ChatPage
Sorry == "Sorry, I couldn't process your request. Please try again."
ConnectionError == "Connection error. Please check your internet connection and try again."

Message(text) == [text |-> text, reset |-> AvailableNow]
BlockedMessage(formatted) == [text |-> RateLimitReached, reset |-> formatted]

\* detail of an error body: {message: text}, a string, or none
DetailObject(text) == [k |-> "object", text |-> text]
DetailString(text) == [k |-> "string", text |-> text]
NoDetail == [k |-> "none", text |-> "none"]

\* apiRequest('/api/v1/query'): [threw, error] and the body's rate_limit
apiRequest(p) ==
    CASE p.k = "neterr" -> [threw |-> TRUE, error |-> Message(FailedToFetch), rl |-> NoRateLimit]
      [] p.k = "undecodable" -> [threw |-> TRUE, error |-> Message(JsonSyntaxError), rl |-> NoRateLimit]
      [] p.status = 429 ->
            [threw |-> TRUE,
             error |-> IF p.detail.k = "object" THEN Message(p.detail.text)
                       ELSE Message(GenericRateLimit),
             rl |-> NoRateLimit]
      [] p.status # 200 ->
            [threw |-> TRUE,
             error |-> IF p.detail.k = "string" THEN Message(p.detail.text)
                       ELSE Message(HttpError),
             rl |-> NoRateLimit]
      [] OTHER -> [threw |-> FALSE, error |-> NoMessage, rl |-> p.rl]

\* error.message.includes('Rate limit reached') / includes('Failed to fetch')
IncludesRateLimitReached(m) == m.text \in {RateLimitReached, ServerSaysReached}
IncludesFailedToFetch(m) == m.text = FailedToFetch

\* the catch of handleSendMessage: the text put in the chat
errorMessage(m) ==
    IF IncludesRateLimitReached(m) THEN m
    ELSE IF IncludesFailedToFetch(m) THEN Message(ConnectionError)
    ELSE Message(Sorry)

---------------------------------------------------------------------------
(* Spec: the chat page.  Every action is the code that runs between two    *)
(* network calls; a task waiting for a status probe resumes with the       *)
(* probe's outcome o.                                                      *)

Task(kind, pc, usage, rl, qn) == [kind |-> kind, pc |-> pc, usage |-> usage, rl |-> rl, qn |-> qn]
\* what a refresh keeps of the snapshot it shows when its second probe returns
NoUsage == [reached |-> FALSE, serverSync |-> FALSE]
Starting(kind) == Task(kind, "getUsage", NoUsage, NoRateLimit, 0)

Spawn(b, task) == b (+) SetToBag({task})
Retire(b, task) == b (-) SetToBag({task})
Pending == BagCardinality(bg)

\* a render of ChatPage evaluates useState(apiService.formatTimeUntilResetSync())
Render(st, t) == getTimeUntilResetSync(st, t).st

\* the input and the Send button are enabled
CanSend == ui.mounted /\ ~ui.isLoading /\ ~ui.isLimitReached /\ ui.isServerConnected

SpecPriors ==
    {Absent,
     Stringify(Usage(Num(19), Num(2 * TickMs), Num(DefaultLimit), JsFalse, Null)),
     Stringify(Usage(Num(20), Num(StartNow), Num(DefaultLimit), JsTrue, IsoDate(StartNow + 2 * TickMs)))}

InitPage(priors) ==
    /\ now = StartNow
    /\ svc = "ready"
    /\ last = NoOp
    /\ q = QIdle
    /\ hist = HistInit
    /\ \E prior \in priors :
          LET constructed == initializeUsageTracking(prior, StartNow)
          IN  /\ ui = UiInit(constructed, StartNow)
              /\ storage = Render(constructed, StartNow)
    \* the mount effect has started loadUsageData
    /\ bg = SetToBag({Starting("load")})

Init == InitPage(SpecPriors)

\* a handleSendMessage without its setIsLoading(true)
StartQueryNotLoading(maxQueries, maxPending) ==
    /\ CanSend
    /\ hist.queries < maxQueries
    /\ Pending < maxPending
    /\ q' = [QIdle EXCEPT !.pc = "CHECKING"]
    /\ ui' = ui
    /\ hist' = [hist EXCEPT !.queries = @ + 1]
    /\ storage' = Render(storage, now)
    /\ UNCHANGED <<now, svc, last, bg>>

\* handleSendMessage up to the probe of hasReachedLimit()
StartQuery(maxQueries, maxPending) ==
    /\ CanSend
    /\ hist.queries < maxQueries
    /\ Pending < maxPending
    /\ q' = [QIdle EXCEPT !.pc = "CHECKING"]
    /\ ui' = [ui EXCEPT !.isLoading = TRUE]
    /\ hist' = [hist EXCEPT !.queries = @ + 1]
    /\ storage' = Render(storage, now)
    /\ UNCHANGED <<now, svc, last, bg>>

\* a query() that sends the request whatever hasReachedLimit() returned
QueryCheckedAlwaysSends(probes) ==
    /\ q.pc = "CHECKING"
    /\ \E o \in probes :
          LET h == hasReachedLimit(storage, now, o)
          IN  /\ storage' = h.st
              /\ q' = [q EXCEPT !.pc = "SENDING",
                                !.pre = h.usage.count,
                                !.reached = h.ret,
                                !.posted = TRUE]
              /\ hist' = [hist EXCEPT !.posts = @ + 1]
    /\ UNCHANGED <<now, svc, last, bg, ui>>

\* query(): hasReachedLimit() returns; formatTimeUntilReset() or the POST starts
QueryChecked(probes) ==
    /\ q.pc = "CHECKING"
    /\ \E o \in probes :
          LET h == hasReachedLimit(storage, now, o)
          IN  /\ storage' = h.st
              /\ q' = [q EXCEPT !.pc = IF h.ret THEN "BLOCKED" ELSE "SENDING",
                                !.pre = h.usage.count,
                                !.reached = h.ret,
                                !.posted = ~h.ret]
              /\ hist' = [hist EXCEPT !.posts = IF h.ret THEN @ ELSE @ + 1]
    /\ UNCHANGED <<now, svc, last, bg, ui>>

\* an end of handleSendMessage without the setIsLoading(false) of its finally
FinishedStillLoading(attempt, tasks, st) ==
    /\ q' = [attempt EXCEPT !.pc = "IDLE", !.usage = NoSummary, !.rl = NoRateLimit,
                             !.pre = Undef, !.reached = FALSE,
                             !.shown = IF attempt.outcome = "SUCCEEDED"
                                       THEN NoMessage ELSE errorMessage(attempt.error)]
    /\ bg' = Spawn(tasks, Starting("refresh"))
    /\ ui' = IF ui.mounted /\ attempt.outcome = "SUCCEEDED"
             THEN [ui EXCEPT !.isLimitReached = ReachedLimit(attempt.summary)]
             ELSE ui
    /\ \E left \in {st} : storage' = IF ui.mounted THEN Render(left, now) ELSE left

\* the catch and finally of handleSendMessage: the message shown, isLoading
\* reset, refreshUsageData started
Finished(attempt, tasks, st) ==
    /\ q' = [attempt EXCEPT !.pc = "IDLE", !.usage = NoSummary, !.rl = NoRateLimit,
                             !.pre = Undef, !.reached = FALSE,
                             !.shown = IF attempt.outcome = "SUCCEEDED"
                                       THEN NoMessage ELSE errorMessage(attempt.error)]
    /\ bg' = Spawn(tasks, Starting("refresh"))
    /\ ui' = IF ui.mounted
             THEN [ui EXCEPT !.isLoading = FALSE,
                             !.isLimitReached = IF attempt.outcome = "SUCCEEDED"
                                                THEN ReachedLimit(attempt.summary)
                                                ELSE @]
             ELSE ui
    /\ \E left \in {st} : storage' = IF ui.mounted THEN Render(left, now) ELSE left

\* query(): the limit was reached; formatTimeUntilReset() returns and the error
\* is thrown
QueryBlocked(probes) ==
    /\ q.pc = "BLOCKED"
    /\ \E o \in probes :
          \E f \in {formatTimeUntilReset(storage, now, o)} :
              Finished([q EXCEPT !.outcome = "BLOCKED", !.error = BlockedMessage(f.ret)],
                       bg, f.st)
    /\ UNCHANGED <<now, svc, last, hist>>

\* a query() that hands the rate_limit of an error body to updateUsageFromServer
QueryRespondedAppliesErrorBody(posts) ==
    /\ q.pc = "SENDING"
    /\ \E p \in posts :
          LET a == apiRequest(p)
              started == IF p.rl.present
                         THEN Spawn(bg, Task("update", "getUsage", NoUsage, p.rl, hist.queries))
                         ELSE bg
          IN  IF a.threw
              THEN /\ Finished([q EXCEPT !.outcome = "FAILED", !.error = a.error], started, storage)
                   /\ UNCHANGED hist
              ELSE /\ q' = [q EXCEPT !.pc = "INCREMENT", !.rl = a.rl]
                   /\ bg' = started
                   /\ UNCHANGED <<storage, ui, hist>>
    /\ UNCHANGED <<now, svc, last>>

\* apiRequest returns or throws; on success updateUsageFromServer is started
\* without being awaited and incrementUsage() starts its probe
QueryResponded(posts) ==
    /\ q.pc = "SENDING"
    /\ \E p \in posts :
          LET a == apiRequest(p)
          IN  IF a.threw
              THEN /\ Finished([q EXCEPT !.outcome = "FAILED", !.error = a.error], bg, storage)
                   /\ UNCHANGED hist
              ELSE /\ q' = [q EXCEPT !.pc = "INCREMENT", !.rl = a.rl]
                   /\ bg' = IF a.rl.present
                            THEN Spawn(bg, Task("update", "getUsage", NoUsage, a.rl, hist.queries))
                            ELSE bg
                   /\ UNCHANGED <<storage, ui, hist>>
    /\ UNCHANGED <<now, svc, last>>

\* incrementUsage() returns; formatTimeUntilReset() starts its probe
QueryIncremented(probes) ==
    /\ q.pc = "INCREMENT"
    /\ \E o \in probes :
          LET i == incrementUsage(storage, now, o)
          IN  /\ storage' = i.st
              /\ q' = [q EXCEPT !.pc = "SUMMARY", !.incs = @ + 1,
                                !.usage = [NoSummary EXCEPT !.count = i.ret.count,
                                                            !.limit = i.ret.limit]]
    /\ UNCHANGED <<now, svc, last, bg, ui, hist>>

\* formatTimeUntilReset() returns; query() returns the response with its usage
QuerySummarised(probes) ==
    /\ q.pc = "SUMMARY"
    /\ \E o \in probes :
          \E f \in {formatTimeUntilReset(storage, now, o)} :
              LET summary == [count |-> q.usage.count, limit |-> q.usage.limit,
                              remaining |-> Minus(q.usage.limit, q.usage.count),
                              resetTime |-> f.ret]
              IN  Finished([q EXCEPT !.outcome = "SUCCEEDED", !.summary = summary], bg, f.st)
    /\ hist' = [hist EXCEPT !.succeeded = @ + 1]
    /\ UNCHANGED <<now, svc, last>>

\* updateUsageFromServer(): its getUsage() returns and the record is rewritten
UpdateDone(probes) ==
    \E task \in BagToSet(bg), o \in probes :
        /\ task.kind = "update"
        /\ storage' = updateUsageFromServer(storage, now, o, task.rl).st
        /\ bg' = Retire(bg, task)
        /\ UNCHANGED <<now, svc, last, q, ui, hist>>

\* loadUsageData / updateUsageData / refreshUsageData: getUsage() returns and
\* formatTimeUntilReset() starts its probe
RefreshGot(probes) ==
    \E task \in BagToSet(bg), o \in probes :
        /\ task.kind \in {"load", "periodic", "refresh"}
        /\ task.pc = "getUsage"
        /\ LET g == getUsage(storage, now, o)
           IN  /\ storage' = g.st
               /\ bg' = Spawn(Retire(bg, task),
                              [task EXCEPT !.pc = "format",
                                           !.usage = [reached |-> ReachedLimit(g.ret),
                                                      serverSync |-> Truthy(g.ret.serverSync)]])
        /\ UNCHANGED <<now, svc, last, q, ui, hist>>

\* ... formatTimeUntilReset() returns; setUsage, and for the load and the
\* periodic task the connection state
RefreshShown(probes) ==
    \E task \in BagToSet(bg), o \in probes :
        /\ task.kind \in {"load", "periodic", "refresh"}
        /\ task.pc = "format"
        /\ LET f == formatTimeUntilReset(storage, now, o)
           IN  storage' = IF ui.mounted THEN Render(f.st, now) ELSE f.st
        /\ ui' = IF ui.mounted
                 THEN [ui EXCEPT !.isLimitReached = task.usage.reached,
                                 !.isServerConnected =
                                     IF task.kind = "refresh" THEN @ ELSE task.usage.serverSync]
                 ELSE ui
        /\ bg' = Retire(bg, task)
        /\ UNCHANGED <<now, svc, last, q, hist>>

\* an interval that is not cleared when the page is left
TimerFireUncleared ==
    /\ hist.timers < MaxTimers
    /\ Pending < MaxPending
    /\ bg' = Spawn(bg, Starting("periodic"))
    /\ hist' = [hist EXCEPT !.timers = @ + 1]
    /\ UNCHANGED <<storage, now, svc, last, q, ui>>

\* the 10 s interval fires: updateUsageData starts
TimerFire ==
    /\ ui.mounted
    /\ hist.timers < MaxTimers
    /\ Pending < MaxPending
    /\ bg' = Spawn(bg, Starting("periodic"))
    /\ hist' = [hist EXCEPT !.timers = @ + 1]
    /\ UNCHANGED <<storage, now, svc, last, q, ui>>

\* the page is left: clearInterval
Unmount ==
    /\ ui.mounted
    /\ ui' = [ui EXCEPT !.mounted = FALSE]
    /\ UNCHANGED <<storage, now, svc, last, q, bg, hist>>

\* what the status endpoint of a server with a quota of 20 answers
PageStatus == {<<3, 17>>, <<20, 0>>}
PageRemaining == {0, 17}
PageReset == IsoDate(StartNow + 2 * TickMs)
PageProbes ==
    {ProbeFail("neterr")} \cup {ProbeOk(s[1], s[2], PageReset) : s \in PageStatus}

PostFailures ==
    {Post("neterr", 0, NoDetail, NoRateLimit),
     Post("http", 429, DetailObject(ServerSaysReached), NoRateLimit)}
PostPlain == {Post("http", 200, NoDetail, NoRateLimit)}
PostWithRateLimit ==
    {Post("http", 200, NoDetail, [remaining |-> r, reset |-> PageReset, present |-> TRUE]) :
        r \in PageRemaining}
PagePosts == PostFailures \cup PostPlain \cup PostWithRateLimit

Next ==
    \/ Advance(MaxPageTicks)
    \/ StartQuery(MaxQueries, MaxPending)
    \/ QueryChecked(PageProbes)
    \/ QueryBlocked(PageProbes)
    \/ QueryResponded(PagePosts)
    \/ QueryIncremented(PageProbes)
    \/ QuerySummarised(PageProbes)
    \/ UpdateDone(PageProbes)
    \/ RefreshGot(PageProbes)
    \/ RefreshShown(PageProbes)

Spec == Init /\ [][Next]_vars

\* SpecOffline: a fresh client whose status endpoint never answers and whose
\* query responses carry no rate_limit
InitOffline == InitPage({Absent})

NextOffline ==
    \/ Advance(MaxPageTicks)
    \/ StartQuery(MaxOfflineQueries, MaxOfflinePending)
    \/ QueryChecked(ProbeFailures)
    \/ QueryBlocked(ProbeFailures)
    \/ QueryResponded(PostFailures \cup PostPlain)
    \/ QueryIncremented(ProbeFailures)
    \/ QuerySummarised(ProbeFailures)
    \/ RefreshGot(ProbeFailures)
    \/ RefreshShown(ProbeFailures)

SpecOffline == InitOffline /\ [][NextOffline]_vars

\* SpecErrors: the chat page with every way the query request can fail
MaxErrorQueries == 2

\* the rate_limit object of an error body that carries one
ErrorRateLimit == [remaining |-> 0, reset |-> PageReset, present |-> TRUE]
\* HTTP 429 with each shape of body the interface allows
RateLimitedPosts ==
    {Post("http", 429, d, NoRateLimit) :
        d \in {DetailObject(ServerSaysReached), DetailObject(ServerSaysExceeded),
               DetailString(ServerSaysExceeded), NoDetail}}
    \cup {Post("http", 429, DetailObject(ServerSaysReached), ErrorRateLimit)}
\* another non-2xx status, or no usable response at all
OtherFailedPosts ==
    {Post("neterr", 0, NoDetail, NoRateLimit),
     Post("undecodable", 502, NoDetail, NoRateLimit),
     Post("http", 500, DetailString(ServerDetail), NoRateLimit),
     Post("http", 500, NoDetail, NoRateLimit),
     Post("http", 500, NoDetail, ErrorRateLimit)}
ErrorPosts == RateLimitedPosts \cup OtherFailedPosts \cup PostPlain
\* the status endpoint is down, or reports the last query of the quota left
ErrorProbes == {ProbeFail("neterr"), ProbeOk(19, 1, PageReset)}

NextErrors ==
    \/ Advance(MaxPageTicks)
    \/ StartQuery(MaxErrorQueries, MaxPending)
    \/ QueryChecked(ErrorProbes)
    \/ QueryBlocked(ErrorProbes)
    \/ QueryResponded(ErrorPosts)
    \/ QueryIncremented(ErrorProbes)
    \/ QuerySummarised(ErrorProbes)
    \/ RefreshGot(ErrorProbes)
    \/ RefreshShown(ErrorProbes)

SpecErrors == Init /\ [][NextErrors]_vars

\* SpecErrorsFair: every network call of an attempt completes or fails, so the
\* continuation after each await of query() eventually runs
\* (an attempt waits for one call at a time: at most one of these is enabled)
AttemptContinues ==
    \/ QueryChecked(ErrorProbes)
    \/ QueryBlocked(ErrorProbes)
    \/ QueryResponded(ErrorPosts)
    \/ QueryIncremented(ErrorProbes)
    \/ QuerySummarised(ErrorProbes)

SpecErrorsFair == SpecErrors /\ WF_vars(AttemptContinues)

\* SpecTimer: the chat page with its 10 s interval running and the page being
\* left, so that reconciliations of the interval race with the others
MaxTimerQueries == 2
TimerProbes == {ProbeFail("neterr"), ProbeOk(19, 1, PageReset)}
\* the request fails, or succeeds without or with the server's counters
TimerPosts ==
    {Post("neterr", 0, NoDetail, NoRateLimit)}
    \cup PostPlain
    \cup {Post("http", 200, NoDetail, [remaining |-> 0, reset |-> PageReset, present |-> TRUE])}

NextTimer ==
    \/ Advance(MaxPageTicks)
    \/ StartQuery(MaxTimerQueries, MaxPending)
    \/ QueryChecked(TimerProbes)
    \/ QueryBlocked(TimerProbes)
    \/ QueryResponded(TimerPosts)
    \/ QueryIncremented(TimerProbes)
    \/ QuerySummarised(TimerProbes)
    \/ UpdateDone(TimerProbes)
    \/ RefreshGot(TimerProbes)
    \/ RefreshShown(TimerProbes)
    \/ TimerFire
    \/ Unmount

SpecTimer == Init /\ [][NextTimer]_vars

\* SpecWindow: the chat page of a fresh client kept open for a whole window, so
\* that a record written early in the window is 5 hours old at a later attempt
MaxWindowTicks == 2
MaxWindowQueries == 2
WindowProbes == {ProbeFail("neterr"), ProbeOk(3, 17, PageReset)}
WindowPosts ==
    {Post("neterr", 0, NoDetail, NoRateLimit),
     Post("http", 200, NoDetail, [remaining |-> 0, reset |-> PageReset, present |-> TRUE])}

NextWindow ==
    \/ Advance(MaxWindowTicks)
    \/ StartQuery(MaxWindowQueries, MaxPending)
    \/ QueryChecked(WindowProbes)
    \/ QueryBlocked(WindowProbes)
    \/ QueryResponded(WindowPosts)
    \/ QueryIncremented(WindowProbes)
    \/ QuerySummarised(WindowProbes)
    \/ UpdateDone(WindowProbes)
    \/ RefreshGot(WindowProbes)
    \/ RefreshShown(WindowProbes)

SpecWindow == InitOffline /\ [][NextWindow]_vars

---------------------------------------------------------------------------
(* Claims about the engine's operations (SpecEngine, SpecLoad) *)

\* the step runs one engine operation to its end
RanOp(name) == hist'.ops = hist.ops + 1 /\ last'.op = name

\* C1: after getUsage() with a probe that reported queries_used = u and
\* queries_remaining = r, the snapshot returned and persisted has count = u,
\* limit = u + r, serverSync = true and serverResetTime = the reported reset_time
C1_ServerSnapshot ==
    (last.op = "getUsage" /\ last.probe.k = "ok") =>
        /\ last.ret.count = Num(last.probe.used)
        /\ last.ret.limit = Num(last.probe.used + last.probe.remaining)
        /\ last.ret.serverSync = JsTrue
        /\ last.ret.serverResetTime = last.probe.reset
        /\ storage = Stringify(last.ret)

\* C2: a getUsage() whose probe failed returns and persists the count, limit and
\* timestamp of the record persisted before, with serverSync = false and
\* serverResetTime = null
C2_OfflineKeeps ==
    [][(RanOp("getUsage") /\ last'.probe.k # "ok") =>
          /\ last'.ret.count = storage.v.count
          /\ last'.ret.limit = storage.v.limit
          /\ last'.ret.timestamp = storage.v.timestamp
          /\ last'.ret.serverSync = JsFalse
          /\ last'.ret.serverResetTime = Null
          /\ storage' = Json(last'.ret)]_vars

\* C2 witness: a failed probe has left an exhausted record of an expired window
\* as it was, marked unsynced
C2_Witness ==
    /\ last.op = "getUsage"
    /\ last.probe.k = "neterr"
    /\ storage.v.count = Num(20)
    /\ now - storage.v.timestamp.n > FiveHours
    /\ storage.v.serverSync = JsFalse
    /\ storage.v.serverResetTime = Null

\* C3: a getUsage() whose probe failed, run more than five hours after the
\* persisted timestamp, returns and persists count = 0 and timestamp = now
C3_ExpiredWindowReset ==
    [][(RanOp("getUsage") /\ last'.probe.k # "ok"
          /\ Gt(Minus(Num(now), storage.v.timestamp), Num(FiveHours))) =>
          /\ last'.ret.count = Num(0)
          /\ last'.ret.timestamp = Num(now)
          /\ storage'.v.count = Num(0)
          /\ storage'.v.timestamp = Num(now)]_vars

\* the field f of the persisted content is no JSON number (or there is no object)
NotNumeric(st, f) == st.k # "json" \/ st.v.k # "object" \/ st.v[f].k # "num"

\* C9: getUsageSync() returns count = 0 when the persisted count is missing or
\* no number, and limit = 20 when the persisted limit is missing or no number
C9_LoadDefaults ==
    (last.op = "getUsageSync") =>
        /\ NotNumeric(storage, "count") => last.ret.count = Num(0)
        /\ NotNumeric(storage, "limit") => last.ret.limit = Num(DefaultLimit)

\* C10: no engine operation raises because of bad persisted data; the first of
\* them, constructing the service, completes whatever the key holds
C10_NeverThrows == svc # "failed"

---------------------------------------------------------------------------
(* Claims about the chat page (Spec, SpecOffline) *)

\* an updateUsageFromServer started by the attempt numbered n is still waiting
UpdatePending(tasks, n) == \E task \in BagToSet(tasks) : task.kind = "update" /\ task.qn = n

\* the step in which query() returns its response
QueryReturns == q.pc = "SUMMARY" /\ q'.pc = "IDLE"

\* the step ends an updateUsageFromServer carrying `remaining` = r of an attempt
\* that has already returned
UpdateEndsLast(r) ==
    \E task \in BagToSet(bg) :
        /\ task.kind = "update"
        /\ task.rl.remaining = r
        /\ bg' = Retire(bg, task)
        /\ task.qn < hist.queries \/ q.pc = "IDLE"
        /\ ~UpdatePending(bg', task.qn)

\* C4: when query() has returned a response carrying rate_limit.remaining = r and
\* the updateUsageFromServer it started has ended, whichever of the two comes
\* last, the persisted count is limit - r
C4_ServerCountersWin ==
    [][\A r \in PageRemaining :
          (\/ QueryReturns /\ q.rl.present /\ q.rl.remaining = r
                /\ ~UpdatePending(bg, hist.queries)
           \/ UpdateEndsLast(r))
          => storage'.v.count = Minus(storage'.v.limit, Num(r))]_vars

\* C5: when the response carried no rate_limit, the count persisted by the
\* attempt's incrementUsage() is the count of its pre-check snapshot plus 1
C5_ExactlyOneMore ==
    [][(q.pc = "INCREMENT" /\ q'.pc = "SUMMARY" /\ ~q.rl.present)
          => storage'.v.count = Plus(q.pre, Num(1))]_vars

\* the window of the record written at StartNow is still open
WindowOpen == now - StartNow < FiveHours

\* the texts formatTimeUntilReset can have produced up to now in that window
OpenWindowTimes == {formatTime(Num(FiveHours - k * TickMs)) : k \in 0..hist.ticks}

C7_BlockedSendsNothing ==
    [][/\ (q.pc = "CHECKING" /\ q'.reached) =>
             /\ q'.pc = "BLOCKED"
             /\ ~q'.posted
             /\ hist'.posts = hist.posts
       /\ (q.pc = "BLOCKED" /\ q' # q) =>
             /\ q'.pc = "IDLE"
             /\ q'.outcome = "BLOCKED"
             /\ ~q'.posted
             /\ q'.incs = 0
             /\ hist'.posts = hist.posts
             /\ q'.error.text = RateLimitReached
             /\ q'.error.reset \in
                   {formatTime(Num(ms)) : ms \in {0, TickMs, 2 * TickMs, FiveHours}}
             /\ storage'.v.count \in
                   {storage.v.count, Num(0)} \cup {Num(st[1]) : st \in PageStatus}]_vars

\* C7 witness: an attempt has ended BLOCKED
C7_Witness ==
    /\ q.pc = "IDLE"
    /\ q.outcome = "BLOCKED"
    /\ hist.posts < hist.queries

\* C8: with the server marked unreachable and the local snapshot below its
\* limit, the send controls of the page are enabled unless an attempt is running
C8_DisconnectedCanSend ==
    (/\ ui.mounted
     /\ ~ui.isServerConnected
     /\ ~ui.isLoading
     /\ ~ui.isLimitReached
     /\ ~ReachedLimit(getUsageSync(storage, now)))
    => CanSend

---------------------------------------------------------------------------
(* Claims about failed query requests (SpecErrors) *)

\* the step is the end of an attempt whose request ended as p
RespondedWith(p) == q.pc = "SENDING" /\ QueryResponded({p})

\* the message a 429 body provides, else the generic rate-limit message
ServerProvided(p) ==
    IF p.detail.k \in {"object", "string"} THEN p.detail.text ELSE GenericRateLimit

\* C11: a request answered 429 ends the attempt FAILED without an increment of
\* the persisted count, and the message shown is the one of the 429 body
\* (detail.message or a string detail) when it has one, else the generic
\* rate-limit message
C11_RejectionSurfaced ==
    [][\A p \in RateLimitedPosts :
          RespondedWith(p) =>
              /\ q'.pc = "IDLE"
              /\ q'.outcome = "FAILED"
              /\ q'.incs = 0
              /\ storage'.v.count \in {storage.v.count, Num(0)}
              /\ q'.shown.text = ServerProvided(p)]_vars

\* C12: the message shown for a failed attempt tells a rate-limit rejection
\* (429) from every other failure: no message is shown for both
C12_FailuresDistinguished ==
    (q.pc = "IDLE" /\ q.outcome = "FAILED") =>
        ~ \E p \in RateLimitedPosts, o \in OtherFailedPosts :
              /\ errorMessage(apiRequest(p).error) = q.shown
              /\ errorMessage(apiRequest(o).error) = q.shown

---------------------------------------------------------------------------
(* Claims about the time until reset (SpecLoad, SpecEngine) *)

TimeOps == {"getTimeUntilReset", "getTimeUntilResetSync"}

\* the step calls getTimeUntilReset or getTimeUntilResetSync
TimeCall == last'.op \in TimeOps /\ svc = "ready"

\* the reconciliation of that call: what it returns and the record it leaves
Reconciled ==
    IF last'.op = "getTimeUntilResetSync"
    THEN [ret |-> getUsageSync(storage, now), st |-> storage]
    ELSE getUsage(storage, now, last'.probe)

\* windowLength - (now - timestamp), floored at 0
LocalArithmetic(usage, t) ==
    LET remaining == Minus(Num(FiveHours), Minus(Num(t), usage.timestamp))
    IN  IF Le(remaining, Num(0)) THEN Num(0) ELSE remaining

\* C13: what getTimeUntilReset / getTimeUntilResetSync return is a number that is
\* not negative, whatever the snapshot
C13_NeverNegative ==
    last.op \in TimeOps => Ge(last.ret, Num(0))

\* C13 witness: a synced record whose server reset instant has passed gave 0
C13_Witness ==
    /\ last.op = "getTimeUntilResetSync"
    /\ storage.k = "json" /\ storage.v.k = "object"
    /\ last.ret = Num(0)
    /\ storage.v.serverSync = JsTrue
    /\ storage.v.serverResetTime = IsoDate(StartNow - TickMs)

\* C15: with a serverResetTime that is a sentinel, absent or no date, the call
\* returns windowLength - (now - timestamp) floored at 0
C15_SentinelFallsBack ==
    [][(TimeCall /\ Reconciled.ret.serverResetTime.k # "iso")
          => last'.ret = LocalArithmetic(Reconciled.ret, now)]_vars

\* C15 witness: a synced record carrying the 'Window expired' sentinel gave the
\* local value of its open window
C15_Witness ==
    /\ last.op = "getTimeUntilResetSync"
    /\ storage.k = "json" /\ storage.v.k = "object"
    /\ storage.v.serverSync = JsTrue
    /\ storage.v.serverResetTime = ResetExpired
    /\ storage.v.timestamp = Num(StartNow - TickMs)
    /\ last.ret = Num(FiveHours - TickMs)

\* C16: on a synced snapshot whose serverResetTime is the instant R the call
\* returns max(0, R - now) and leaves the record as the reconciliation wrote it
C16_ServerInstantUsed ==
    [][(TimeCall /\ Truthy(Reconciled.ret.serverSync)
          /\ Reconciled.ret.serverResetTime.k = "iso")
          => /\ last'.ret = Num(Max(0, Reconciled.ret.serverResetTime.n - now))
             /\ storage' = Reconciled.st]_vars

\* C16 witness: a synced record of an expired local window with a reset instant
\* ahead gave the time to that instant and kept its count
C16_Witness ==
    /\ last.op = "getTimeUntilResetSync"
    /\ storage.k = "json" /\ storage.v.k = "object"
    /\ storage.v.serverSync = JsTrue
    /\ storage.v.timestamp = Num(0)
    /\ storage.v.serverResetTime = IsoDate(StartNow + TickMs)
    /\ storage.v.count = Num(3)
    /\ last.ret = Num(TickMs)

\* C14: when getTimeUntilReset has returned 0, the next call of it leaves the
\* persisted record reset: count = 0, timestamp = now, limit = 20
C14_ZeroThenReset ==
    [][(last.op = "getTimeUntilReset" /\ last.ret = Num(0) /\ RanOp("getTimeUntilReset"))
          => /\ storage'.v.count = Num(0)
             /\ storage'.v.timestamp = Num(now)
             /\ storage'.v.limit = Num(DefaultLimit)]_vars

---------------------------------------------------------------------------
(* Claims about the persisted record as a whole *)

C18_CountMonotone ==
    [][\/ Ge(storage'.v.count, storage.v.count)
       \/ storage' = resetUsage(now)]_vars

---------------------------------------------------------------------------
(* Claims about concurrent reconciliations (SpecTimer) *)

\* the step completes, with the probe outcome o, the getUsage() of
\* loadUsageData / updateUsageData / refreshUsageData
Reconciles(o) == RefreshGot({o})
\* ... or the getUsage() of the formatTimeUntilReset() that follows it
Formats(o) == RefreshShown({o})

\* C19: with no query attempt under way, a probe that answers leaves the
\* persisted count equal to the queries_used it reports, with serverSync true,
\* whatever the concurrent tasks had written before
C19_SelfCorrects ==
    [][\A o \in TimerProbes :
          (o.k = "ok" /\ q.pc = "IDLE" /\ (Reconciles(o) \/ Formats(o)))
          => /\ storage'.v.count = Num(o.used)
             /\ storage'.v.serverSync = JsTrue]_vars

\* C19 witness: a query that returned count 20 (the server's 19 plus 1) has
\* ended, the interval has fired, every task has ended and the record holds
\* the server's 19
C19_Witness ==
    /\ q.pc = "IDLE"
    /\ q.outcome = "SUCCEEDED"
    /\ q.summary.count = Num(20)
    /\ hist.timers >= 1
    /\ Pending = 0
    /\ storage.v.count = Num(19)
    /\ storage.v.serverSync = JsTrue

\* the record rec is the whole result of a reconciliation that read the record
\* prior and got the probe outcome o at Date.now() = t
CompleteResult(rec, prior, o, t) ==
    IF o.k = "ok"
    THEN rec = Usage(Num(o.used), Num(t), Num(o.used + o.remaining), JsTrue, o.reset)
    ELSE rec = [prior EXCEPT !.serverSync = JsFalse, !.serverResetTime = Null]

\* C20: whatever other reconciliations are pending, the record a getUsage()
\* leaves is the whole result of that reconciliation, computed from the record
\* stored when its probe returned: no field comes from another one
C20_NoTornRecord ==
    [][\A o \in TimerProbes :
          Reconciles(o) => CompleteResult(storage'.v, storage.v, o, now)]_vars

\* C20 witness: the reconciliations of the page load and of the interval have
\* both run, one with an answer and one without, and the record is the
\* offline result
C20_Witness ==
    /\ \E a, b \in BagToSet(bg) :
          /\ a.kind = "load" /\ a.pc = "format" /\ a.usage.serverSync
          /\ b.kind = "periodic" /\ b.pc = "format" /\ ~b.usage.serverSync
    /\ storage.v.serverSync = JsFalse
    /\ storage.v.serverResetTime = Null
    /\ storage.v.count = Num(19)

---------------------------------------------------------------------------
(* Claims about the query attempt (Spec, SpecErrors, SpecTimer) *)

\* C21: the pre-check of query() runs a reconciliation of its own, and the POST
\* is issued exactly when the snapshot of that reconciliation has count < limit;
\* hasReachedLimit() is true exactly when it has count >= limit
C21_FreshSnapshotGates ==
    [][(q.pc = "CHECKING" /\ q'.pc # "CHECKING") =>
          \E o \in PageProbes :
              LET fresh == getUsage(storage, now, o)
              IN  /\ storage' = fresh.st
                  /\ q'.pre = fresh.ret.count
                  /\ q'.reached <=> fresh.ret.count.n >= fresh.ret.limit.n
                  /\ q'.posted <=> fresh.ret.count.n < fresh.ret.limit.n
                  /\ hist'.posts = hist.posts + (IF fresh.ret.count.n < fresh.ret.limit.n
                                                  THEN 1 ELSE 0)]_vars

\* C21 witness: the page still showed the limit as not reached, and the
\* reconciliation of the attempt found it reached
C21_Witness ==
    /\ q.pc = "BLOCKED"
    /\ q.reached
    /\ ~q.posted
    /\ ~ui.isLimitReached

\* the steps of the state machine of an attempt
AttemptStep ==
    \/ q.pc = "IDLE" /\ q'.pc = "CHECKING"
    \/ q.pc = "CHECKING" /\ q'.pc \in {"BLOCKED", "SENDING"}
    \/ q.pc = "BLOCKED" /\ q'.pc = "IDLE" /\ q'.outcome = "BLOCKED"
    \/ q.pc = "SENDING" /\ q'.pc = "IDLE" /\ q'.outcome = "FAILED"
    \/ q.pc = "SENDING" /\ q'.pc = "INCREMENT"
    \/ q.pc = "INCREMENT" /\ q'.pc = "SUMMARY"
    \/ q.pc = "SUMMARY" /\ q'.pc = "IDLE" /\ q'.outcome = "SUCCEEDED"

\* C22: an attempt moves IDLE -> CHECKING -> (BLOCKED | SENDING) -> (SUCCEEDED |
\* FAILED) -> IDLE and no other way, and when every network call completes or
\* fails an attempt under way leads to IDLE with isLoading false
C22_AttemptTerminates ==
    /\ [][q'.pc # q.pc => AttemptStep]_vars
    /\ (q.pc # "IDLE") ~> (q.pc = "IDLE" /\ ~ui.isLoading)

\* C22 witness: attempts have ended in each of the three ways; the last one was
\* blocked and the page is idle again
C22_Witness ==
    /\ q.pc = "IDLE"
    /\ q.outcome = "BLOCKED"
    /\ ~ui.isLoading
    /\ hist.succeeded = 1
    /\ hist.queries = 2

\* the number of updateUsageData tasks waiting for their first probe
PeriodicStarting(tasks) == CopiesIn(Starting("periodic"), tasks)

\* C23: while the page is mounted a tick of the interval starts a
\* reconciliation whatever the attempt is doing (within the bounds on ticks
\* and pending tasks); a tick starts exactly one updateUsageData, and once the
\* page is left none is started any more
C23_TimerUntilTeardown ==
    /\ []((ui.mounted /\ hist.timers < MaxTimers /\ Pending < MaxPending)
             => ENABLED TimerFire)
    /\ [][/\ hist'.timers # hist.timers =>
                /\ ui.mounted
                /\ hist'.timers = hist.timers + 1
                /\ PeriodicStarting(bg') = PeriodicStarting(bg) + 1
          /\ ~ui.mounted =>
                /\ hist'.timers = hist.timers
                /\ PeriodicStarting(bg') <= PeriodicStarting(bg)]_vars

\* C23 witness: the interval has started a reconciliation that waits for its
\* probe together with an attempt waiting for its response, and the page has
\* been left
C23_Witness ==
    /\ q.pc = "SENDING"
    /\ PeriodicStarting(bg) = 1
    /\ hist.timers = 1
    /\ ~ui.mounted

---------------------------------------------------------------------------
(* Claims about the status probe (SpecLoad) *)

\* C24: getRateLimitStatus() never raises, issues one GET, and returns null when
\* the fetch rejects, the status is not 2xx or the body cannot be decoded (the
\* decoded body otherwise)
C24_ProbeNeverThrows ==
    last.op = "getRateLimitStatus" =>
        /\ ~last.ret.threw
        /\ last.ret.gets = 1
        /\ last.ret.value = (IF last.probe.k = "ok" THEN last.probe ELSE NoStatus)

\* C24 witness: a probe whose body could not be decoded returned null
C24_Witness ==
    /\ last.op = "getRateLimitStatus"
    /\ last.probe.k = "undecodable"
    /\ last.ret.value = NoStatus
    /\ ~last.ret.threw

---------------------------------------------------------------------------
(* Claims about the record and the results of query() *)

\* C25: in every reachable state the persisted count is at most the persisted
\* limit, whatever the interleaving of incrementUsage and updateUsageFromServer
C25_CountWithinLimit ==
    (storage.k = "json" /\ storage.v.k = "object") =>
        Le(storage.v.count, storage.v.limit)

\* C26: when query() returns a response, the count and limit of the summary it
\* attaches are those of the persisted record, and remaining = limit - count
C26_SummaryAgrees ==
    [][QueryReturns =>
          \E f \in {formatTimeUntilReset(storage, now, o).st : o \in PageProbes} :
              /\ storage' = (IF ui.mounted THEN Render(f, now) ELSE f)
              /\ q'.summary.count = f.v.count
              /\ q'.summary.limit = f.v.limit
              /\ q'.summary.remaining = Minus(q'.summary.limit, q'.summary.count)]_vars

\* C28: an attempt that query() blocked reports a time until reset other than
\* 'Available now'
C28_BlockedHasWait ==
    (q.pc = "IDLE" /\ q.outcome = "BLOCKED") => q.error.reset # AvailableNow

\* C27: the step that ends an attempt FAILED (429, another non-2xx status, no
\* connection, a body that cannot be decoded) comes without an increment and
\* starts no updateUsageFromServer: it leaves the persisted record as the
\* pre-check left it (the page's render aside)
C27_FailedAppliesNothing ==
    [][\A p \in RateLimitedPosts \cup OtherFailedPosts :
          RespondedWith(p) =>
              /\ q'.pc = "IDLE"
              /\ q'.outcome = "FAILED"
              /\ q'.incs = 0
              /\ ~UpdatePending(bg', hist.queries)
              /\ storage' = (IF ui.mounted THEN Render(storage, now) ELSE storage)]_vars

\* C27 witness: an attempt whose pre-check reconciled the record with the
\* server has ended FAILED
C27_Witness ==
    /\ q.pc = "IDLE"
    /\ q.outcome = "FAILED"
    /\ q.incs = 0
    /\ storage.v.count = Num(19)
    /\ storage.v.serverSync = JsTrue
    /\ ~UpdatePending(bg, hist.queries)

---------------------------------------------------------------------------
(* Claims about the attempts of the chat page (SpecTimer) *)

=============================================================================
